---- MODULE Spec2Model ----
(***************************************************************************)
(* Model of go-httpt: httpt.Server, its queue of expected round trips      *)
(* (tripQueue), the pushers (tripPusher / tripBuilder) and the mock        *)
(* transport (transport.RoundTrip).                                        *)
(*                                                                         *)
(* Go strings are modelled as sequences of tokens, so that concatenation   *)
(* (fmt.Sprintf, url.URL.String) and splitting (strings.Split) are         *)
(* computed rather than assumed.  The token "?" always stands alone.       *)
(***************************************************************************)
EXTENDS Integers, Sequences, FiniteSets, TLC

VARIABLES
    queue,             \* Server.engine.queue : []tripEntry
    DefaultRoundTrip,  \* Server.DefaultRoundTrip
    builtWithT,        \* history: constructed by NewServer(t) (TRUE) or NewRawServer() (FALSE)
    op,                \* history: the last operation performed on the harness
    req,               \* the request of the last RoundTrip
    method,            \* RoundTrip's local `method`
    path,              \* RoundTrip's local `path`
    resp,              \* the *http.Response returned by the last RoundTrip
    err,               \* the error returned by the last RoundTrip
    hit,               \* history: the entry consumed by the last RoundTrip
    branch,            \* history: which return statement of RoundTrip was taken
    fallbackCalls,     \* history: calls of DefaultRoundTrip in the last RoundTrip
    reports,           \* history: calls of t.Errorf in the last RoundTrip
    invoked,           \* history: per pushed entry, how often its trip was called
    nextId,            \* history: number of pushes so far, plus one
    nPush,             \* history: pushes since the last Reset (or construction)
    nHit,              \* history: RoundTrips since then that popped an entry
    nReset,            \* history: Reset has been called (0 or 1)
    panicked,          \* the goroutine has panicked (call of a nil func)
    queue2,            \* engine.queue of a second Server, made by NewRawServer()
    on,                \* history: the Server (1 or 2) the last operation was called on
    pusher,            \* the *tripPusher the last Push was called on
    ret,               \* the value returned by the last Len / StillExpectedRTs / HTTPClient
    gor,               \* per goroutine inside RoundTrip: where it stands in pop, and its locals
    overlap            \* history: a RoundTrip began while another one was inside pop

vars == <<queue, DefaultRoundTrip, builtWithT, op, req, method, path,
          resp, err, hit, branch, fallbackCalls, reports, invoked,
          nextId, nPush, nHit, nReset, panicked, queue2, on, pusher, ret,
          gor, overlap>>

----------------------------------------------------------------------------
(* Bounds of the model *)

\* Pushes performed over the life of one harness.
MaxPushes == 2

----------------------------------------------------------------------------
(* Constants of server.go *)

ANY == <<>>
CONNECT == <<"CONNECT">>
DELETE == <<"DELETE">>
GET == <<"GET">>
HEAD == <<"HEAD">>
OPTIONS == <<"OPTIONS">>
PATCH == <<"PATCH">>
POST == <<"POST">>
PUT == <<"PUT">>
TRACE == <<"TRACE">>

AnyPath == <<"!AnyPath!">>

\* net/http status codes used by the repository
StatusOK == 200
StatusInternalServerError == 500

----------------------------------------------------------------------------
(* Values *)

NilFunc == [kind |-> "nil"]
NilResponse == [kind |-> "nil"]
NilError == [kind |-> "nil"]
NoEntry == [kind |-> "none"]
NoRequest == [kind |-> "none"]
NoPusher == [kind |-> "none"]
NoValue == [kind |-> "none"]

\* the goroutines that call RoundTrip on clients of one Server at the same time
Goroutines == {1, 2}

\* a goroutine that is not inside RoundTrip
Idle == [pc |-> "idle"]

\* &http.Response{StatusCode: code, Body: ...(msg)}
Response(code, msg) == [kind |-> "response", StatusCode |-> code, Body |-> msg]

\* an error value with its message
Error(msg) == [kind |-> "error", msg |-> msg]

\* errors.New("Context Deadline exceeded"), as used by the tests
ExpectedErr == Error(<<"Context Deadline exceeded">>)

\* rt.StringResponseFunc(code, msg): the closure value
StringResponseFunc(code, msg) == [kind |-> "StringResponseFunc", code |-> code, msg |-> msg]

\* FailureFunc(err): the closure value
FailureFunc(e) == [err |-> e, kind |-> "FailureFunc"]

\* the test file's mockedRT: 200 with body "hello"
mockedRT == StringResponseFunc(StatusOK, <<"hello">>)

\* NotMockedFunc(t): the closure value
NotMockedFunc == [kind |-> "NotMockedFunc"]

\* tripEntry{method, path, trip}; id is the identity of the push that made it
tripEntry(m, p, r, id) == [method |-> m, path |-> p, kind |-> "entry", id |-> id, trip |-> r]

\* url.URL with the fields URL.String() prints
URL(scheme, host, p, query, fragment) ==
    [Scheme |-> scheme, Host |-> host, Path |-> p, RawQuery |-> query, Fragment |-> fragment]

\* http.Request{Method, URL}
Request(m, u) == [kind |-> "request", URL |-> u, Method |-> m]

----------------------------------------------------------------------------
(* Inputs *)

PathP == <<"/", "p">>
PathQ == <<"/", "q">>

\* methods and paths given to On(method, path)
OnMethods == {ANY, GET}
OnPaths == {AnyPath, PathP}

\* round trip functions given to Push
Producers == {mockedRT, FailureFunc(ExpectedErr)}

\* round trip functions assigned to Server.DefaultRoundTrip by the caller
Fallbacks == {NilFunc, mockedRT, FailureFunc(ExpectedErr)}

Requests ==
    { Request(GET, URL(<<>>, <<>>, PathP, <<>>, <<>>)),
      Request(POST, URL(<<>>, <<>>, PathP, <<>>, <<>>)),
      Request(GET, URL(<<>>, <<>>, PathQ, <<>>, <<>>)),
      Request(GET, URL(<<>>, <<>>, PathP, <<"x", "=", "1">>, <<>>)) }

----------------------------------------------------------------------------
(* tripQueue *)

\* faulty variant: push puts the entry at the head
QueuePushFront(q, m, p, r, id) == <<tripEntry(m, p, r, id)>> \o q

\* tripQueue.push
QueuePush(q, m, p, r, id) == Append(q, tripEntry(m, p, r, id))

\* faulty variant: reset leaves the queue as it is
QueueResetKeep(q) == q

\* tripQueue.reset
QueueReset(q) == <<>>

\* Server.Len
ServerLen == Len(queue)

\* the loop of tripQueue.pop, from index i on
RECURSIVE PopFrom(_, _, _, _)
PopFrom(q, m, p, i) ==
    IF i > Len(q)
    THEN [queue |-> q, trip |-> NilFunc, ok |-> FALSE, entry |-> NoEntry]
    ELSE LET e == q[i] IN
         IF e.method # m /\ e.method # ANY
         THEN PopFrom(q, m, p, i + 1)
         ELSE IF e.path # p /\ e.path # AnyPath
         THEN PopFrom(q, m, p, i + 1)
         ELSE [queue |-> SubSeq(q, 1, i - 1) \o SubSeq(q, i + 1, Len(q)),
               trip |-> e.trip, ok |-> TRUE,
               entry |-> e]

(* Faulty variants of pop, used to show that the properties below depend on it *)

PopMiss(q) == [queue |-> q, trip |-> NilFunc, ok |-> FALSE, entry |-> NoEntry]

PopMatches(q, m, p) ==
    {i \in 1..Len(q) : (q[i].method = m \/ q[i].method = ANY)
                       /\ (q[i].path = p \/ q[i].path = AnyPath)}

SetMin(S) == CHOOSE i \in S : \A j \in S : i <= j

SetMax(S) == CHOOSE i \in S : \A j \in S : i >= j

RemoveAt(q, i) == SubSeq(q, 1, i - 1) \o SubSeq(q, i + 1, Len(q))

\* the path test is left out
PopMethodOnly(q, m, p) ==
    LET M == {i \in 1..Len(q) : q[i].method = m \/ q[i].method = ANY} IN
    IF M = {} THEN PopMiss(q)
    ELSE [queue |-> RemoveAt(q, SetMin(M)), trip |-> q[SetMin(M)].trip, ok |-> TRUE,
          entry |-> q[SetMin(M)]]

\* the scan runs from the tail
PopLastMatch(q, m, p) ==
    LET M == PopMatches(q, m, p) IN
    IF M = {} THEN PopMiss(q)
    ELSE [queue |-> RemoveAt(q, SetMax(M)), trip |-> q[SetMax(M)].trip, ok |-> TRUE,
          entry |-> q[SetMax(M)]]

\* the matched entry is returned but stays queued
PopKeep(q, m, p) ==
    LET M == PopMatches(q, m, p) IN
    IF M = {} THEN PopMiss(q)
    ELSE [queue |-> q, trip |-> q[SetMin(M)].trip, ok |-> TRUE, entry |-> q[SetMin(M)]]

\* q.queue = q.queue[:i]: the entries behind the match are dropped with it
PopTruncate(q, m, p) ==
    LET M == PopMatches(q, m, p) IN
    IF M = {} THEN PopMiss(q)
    ELSE [queue |-> SubSeq(q, 1, SetMin(M) - 1), trip |-> q[SetMin(M)].trip, ok |-> TRUE,
          entry |-> q[SetMin(M)]]

\* the entries skipped by the scan are dropped
PopDiscardSkipped(q, m, p) ==
    LET M == PopMatches(q, m, p) IN
    IF M = {} THEN PopMiss(<<>>)
    ELSE [queue |-> SubSeq(q, SetMin(M) + 1, Len(q)), trip |-> q[SetMin(M)].trip,
          ok |-> TRUE, entry |-> q[SetMin(M)]]

\* faulty variant: an entry with exactly the request's method and path is taken
\* before any other matching entry
PopMostSpecific(q, m, p) ==
    LET M == PopMatches(q, m, p)
        X == {i \in M : q[i].method = m /\ q[i].path = p}
        i == IF X # {} THEN SetMin(X) ELSE SetMin(M)
    IN  IF M = {} THEN PopMiss(q)
        ELSE [queue |-> RemoveAt(q, i), trip |-> q[i].trip, ok |-> TRUE, entry |-> q[i]]

\* tripQueue.pop
Pop(q, m, p) == PopFrom(q, m, p, 1)

----------------------------------------------------------------------------
(* getPathOnly *)

\* url.URL.EscapedPath(): a "?" that is part of URL.Path is written as %3F
EscapedPath(p) == [i \in 1..Len(p) |-> IF p[i] = "?" THEN "%3F" ELSE p[i]]

\* url.URL.String()
URLString(u) ==
    (IF u.Scheme # <<>> THEN u.Scheme \o <<":">> ELSE <<>>)
    \o (IF u.Scheme # <<>> \/ u.Host # <<>> THEN <<"//">> \o u.Host ELSE <<>>)
    \o EscapedPath(u.Path)
    \o (IF u.RawQuery # <<>> THEN <<"?">> \o u.RawQuery ELSE <<>>)
    \o (IF u.Fragment # <<>> THEN <<"#">> \o u.Fragment ELSE <<>>)

\* strings.Contains(s, tok)
Contains(s, tok) == \E i \in 1..Len(s) : s[i] = tok

\* strings.Split(s, tok)[0]
RECURSIVE SplitFirst(_, _)
SplitFirst(s, tok) ==
    IF s = <<>> THEN <<>>
    ELSE IF Head(s) = tok THEN <<>>
    ELSE <<Head(s)>> \o SplitFirst(Tail(s), tok)

\* faulty variant: the query string is not cut off
getPathOnlyWhole(r) == URLString(r.URL)

\* getPathOnly
getPathOnly(r) ==
    LET p == URLString(r.URL) IN
    IF Contains(p, "?") THEN SplitFirst(p, "?") ELSE p

----------------------------------------------------------------------------
(* Round trip functions *)

\* fmt.Sprintf("httpt.Server: RoundTripFunc not mocked for this request %s:%s", ...)
NotMockedMsg(m, p) ==
    <<"httpt.Server: RoundTripFunc not mocked for this request ">> \o m \o <<":">> \o p

\* fmt.Errorf("httpt.Server request not mocked for this request %s:%s", method, path)
NotMockedErr(m, p) ==
    Error(<<"httpt.Server request not mocked for this request ">> \o m \o <<":">> \o p)

\* faulty variant: the failure is not reported to t
CallNotMockedSilent(r) ==
    [resp |-> Response(StatusInternalServerError, NotMockedMsg(r.Method, getPathOnly(r))),
     err |-> NilError, errorfs |-> 0, panic |-> FALSE]

\* the closure returned by NotMockedFunc(t), called with r
CallNotMocked(r) ==
    [resp |-> Response(StatusInternalServerError, NotMockedMsg(r.Method, getPathOnly(r))),
     err |-> NilError, errorfs |-> 1, panic |-> FALSE]

\* the call f(r) of a RoundTripFunc value
Call(f, r) ==
    CASE f.kind = "StringResponseFunc" ->
            [resp |-> Response(f.code, f.msg), err |-> NilError, errorfs |-> 0, panic |-> FALSE]
      [] f.kind = "FailureFunc" ->
            [resp |-> NilResponse, err |-> f.err, errorfs |-> 0, panic |-> FALSE]
      [] f.kind = "NotMockedFunc" -> CallNotMocked(r)
      [] OTHER ->
            [resp |-> NilResponse, err |-> NilError, errorfs |-> 0, panic |-> TRUE]

----------------------------------------------------------------------------
(* transport.RoundTrip *)

\* faulty variant: an error of the trip is wrapped before it is returned
OnHitWrapErr(popped, m, p, r) ==
    LET out == Call(popped.trip, r) IN
    [queue |-> popped.queue, method |-> m, path |-> p,
     resp |-> out.resp,
     err |-> IF out.err = NilError THEN NilError
             ELSE Error(<<"httpt.Server: ">> \o out.err.msg),
     hit |-> popped.entry, branch |-> "hit",
     fallbackCalls |-> 0, errorfs |-> out.errorfs, panic |-> out.panic]

\* RoundTrip, lines 214-216: an entry was popped; its trip is called with r
OnHit(popped, m, p, r) ==
    LET out == Call(popped.trip, r) IN
    [queue |-> popped.queue, method |-> m, path |-> p,
     resp |-> out.resp, err |-> out.err,
     hit |-> popped.entry, branch |-> "hit",
     fallbackCalls |-> 0, errorfs |-> out.errorfs, panic |-> out.panic]

\* faulty variant: the unmatched-request error names the whole URL string
OnMissRawURL(q, default, m, p, r) ==
    IF default = NilFunc
    THEN [queue |-> q, method |-> m, path |-> p,
          resp |-> NilResponse, err |-> NotMockedErr(m, URLString(r.URL)),
          hit |-> NoEntry, branch |-> "error",
          fallbackCalls |-> 0, errorfs |-> 0, panic |-> FALSE]
    ELSE LET out == Call(default, r) IN
         [queue |-> q, method |-> m, path |-> p,
          resp |-> out.resp, err |-> out.err,
          hit |-> NoEntry, branch |-> "fallback",
          fallbackCalls |-> 1, errorfs |-> out.errorfs, panic |-> out.panic]

\* faulty variant: DefaultRoundTrip is ignored
OnMissNoDefault(q, default, m, p, r) ==
    [queue |-> q, method |-> m, path |-> p,
     resp |-> NilResponse, err |-> NotMockedErr(m, p),
     hit |-> NoEntry, branch |-> "error",
     fallbackCalls |-> 0, errorfs |-> 0, panic |-> FALSE]

\* RoundTrip, lines 218-222: nothing was popped
OnMiss(q, default, m, p, r) ==
    IF default = NilFunc
    THEN [queue |-> q, method |-> m, path |-> p,
          resp |-> NilResponse, err |-> NotMockedErr(m, p),
          hit |-> NoEntry, branch |-> "error",
          fallbackCalls |-> 0, errorfs |-> 0, panic |-> FALSE]
    ELSE LET out == Call(default, r) IN
         [queue |-> q, method |-> m, path |-> p,
          resp |-> out.resp, err |-> out.err,
          hit |-> NoEntry, branch |-> "fallback",
          fallbackCalls |-> 1, errorfs |-> out.errorfs, panic |-> out.panic]

\* faulty variant: a non-nil DefaultRoundTrip is called on a hit as well
RoundTripOfBoth(q, default, r) ==
    LET m == r.Method
        p == getPathOnly(r)
        popped == Pop(q, m, p)
    IN  IF popped.ok
        THEN [OnHit(popped, m, p, r) EXCEPT
                !.fallbackCalls = IF default = NilFunc THEN 0 ELSE 1]
        ELSE OnMiss(popped.queue, default, m, p, r)

\* transport.RoundTrip
RoundTripOf(q, default, r) ==
    LET m == r.Method
        p == getPathOnly(r)
        popped == Pop(q, m, p)
    IN  IF popped.ok
        THEN OnHit(popped, m, p, r)
        ELSE OnMiss(popped.queue, default, m, p, r)

----------------------------------------------------------------------------
(* Pushers, builders and clients *)

\* newTripPusher(engine, method, path); engine names the *tripQueue (1 or 2)
newTripPusher(engine, m, p) ==
    [method |-> m, path |-> p, kind |-> "tripPusher", engine |-> engine]

\* faulty variant: the embedded pusher is made for GET
newTripBuilderGet(engine) == newTripPusher(engine, GET, AnyPath)

\* newTripBuilder(): the builder's embedded pusher; engine names the new &tripQueue{}
newTripBuilder(engine) == newTripPusher(engine, ANY, AnyPath)

\* the tripBuilder embedded in Server s; Server s owns the tripQueue s
Builder(s) == newTripBuilder(s)

\* faulty variant: the new pusher is bound to the other queue, not to t's
OnOtherEngine(t, m, p) == newTripPusher(3 - t.engine, m, p)

\* tripBuilder.On
On(t, m, p) == newTripPusher(t.engine, m, p)

\* Server.HTTPClient: &http.Client{Transport: &transport{s}}
HTTPClient(s) == [kind |-> "client", s |-> s]

\* the queue held by a *tripQueue
EngineQueue(engine) == IF engine = 1 THEN queue ELSE queue2

\* Server s's DefaultRoundTrip; the second Server's field is never assigned
DefaultOf(s) == IF s = 1 THEN DefaultRoundTrip ELSE NilFunc

----------------------------------------------------------------------------
(* Construction *)

InitCommon ==
    /\ queue = <<>>
    /\ op = "new"
    /\ req = NoRequest
    /\ method = <<>>
    /\ path = <<>>
    /\ resp = NilResponse
    /\ err = NilError
    /\ hit = NoEntry
    /\ branch = "none"
    /\ fallbackCalls = 0
    /\ reports = 0
    /\ invoked = [i \in 1..MaxPushes |-> 0]
    /\ nextId = 1
    /\ nPush = 0
    /\ nHit = 0
    /\ nReset = 0
    /\ panicked = FALSE
    /\ queue2 = <<>>
    /\ on = 1
    /\ pusher = NoPusher
    /\ ret = NoValue
    /\ gor = [g \in Goroutines |-> Idle]
    /\ overlap = FALSE

\* NewServer(t)
NewServer ==
    /\ DefaultRoundTrip = NotMockedFunc
    /\ builtWithT = TRUE
    /\ InitCommon

\* NewRawServer()
NewRawServer ==
    /\ DefaultRoundTrip = NilFunc
    /\ builtWithT = FALSE
    /\ InitCommon

Init == NewServer \/ NewRawServer

----------------------------------------------------------------------------
(* Operations *)

\* outside a RoundTrip there is no request in flight and no result
NoRoundTrip ==
    /\ req' = NoRequest
    /\ method' = <<>>
    /\ path' = <<>>
    /\ resp' = NilResponse
    /\ err' = NilError
    /\ hit' = NoEntry
    /\ branch' = "none"
    /\ fallbackCalls' = 0
    /\ reports' = 0

\* the assignment q.queue = v through the *tripQueue engine
SetEngineQueue(engine, v) ==
    IF engine = 1
    THEN queue' = v /\ UNCHANGED queue2
    ELSE queue2' = v /\ UNCHANGED queue

\* tripPusher.Push(f) on the pusher t, which the caller got from Server s
PusherPush(s, t, f, name) ==
    /\ ~panicked
    /\ nextId <= MaxPushes
    /\ SetEngineQueue(t.engine, QueuePush(EngineQueue(t.engine), t.method, t.path, f, nextId))
    /\ nextId' = nextId + 1
    /\ nPush' = IF s = 1 THEN nPush + 1 ELSE nPush
    /\ op' = name
    /\ on' = s
    /\ pusher' = t
    /\ ret' = NoValue
    /\ NoRoundTrip
    /\ UNCHANGED <<DefaultRoundTrip, builtWithT, invoked, nHit, nReset, panicked,
                   gor, overlap>>

\* s.Push(f): the Server's embedded pusher, made by newTripBuilder
Push == \E f \in Producers : PusherPush(1, Builder(1), f, "Push")

\* s.On(m, p).Push(f)
OnPush ==
    \E m \in OnMethods, p \in OnPaths, f \in Producers :
        PusherPush(1, On(Builder(1), m, p), f, "Push")

\* Server.Reset on Server s
ResetOf(s) ==
    /\ ~panicked
    /\ SetEngineQueue(Builder(s).engine, QueueReset(EngineQueue(Builder(s).engine)))
    /\ nPush' = IF s = 1 THEN 0 ELSE nPush
    /\ nHit' = IF s = 1 THEN 0 ELSE nHit
    /\ nReset' = IF s = 1 THEN 1 ELSE nReset
    /\ op' = "Reset"
    /\ on' = s
    /\ pusher' = NoPusher
    /\ ret' = NoValue
    /\ NoRoundTrip
    /\ UNCHANGED <<DefaultRoundTrip, builtWithT, invoked, nextId, panicked,
                   gor, overlap>>

\* Server.Reset
Reset == ResetOf(1)

\* the caller's assignment s.DefaultRoundTrip = f
SetDefaultRoundTrip ==
    /\ ~panicked
    /\ \E f \in Fallbacks : DefaultRoundTrip' = f
    /\ op' = "SetDefaultRoundTrip"
    /\ on' = 1
    /\ pusher' = NoPusher
    /\ ret' = NoValue
    /\ NoRoundTrip
    /\ UNCHANGED <<queue, queue2, builtWithT, invoked, nextId, nPush, nHit, nReset,
                   panicked, gor, overlap>>

\* transport.RoundTrip(r) of the client c, which the caller got from Server s
RoundTripVia(s, c, r) ==
    LET engine == Builder(c.s).engine
        out == RoundTripOf(EngineQueue(engine), DefaultOf(c.s), r)
    IN  /\ ~panicked
        /\ req' = r
        /\ SetEngineQueue(engine, out.queue)
        /\ method' = out.method
        /\ path' = out.path
        /\ resp' = out.resp
        /\ err' = out.err
        /\ hit' = out.hit
        /\ branch' = out.branch
        /\ fallbackCalls' = out.fallbackCalls
        /\ reports' = out.errorfs
        /\ panicked' = out.panic
        /\ invoked' = IF out.hit = NoEntry THEN invoked
                      ELSE [invoked EXCEPT ![out.hit.id] = @ + 1]
        /\ nHit' = IF out.hit # NoEntry /\ s = 1 THEN nHit + 1 ELSE nHit
        /\ op' = "RoundTrip"
        /\ on' = s
        /\ pusher' = NoPusher
        /\ ret' = NoValue
        /\ UNCHANGED <<DefaultRoundTrip, builtWithT, nextId, nPush, nReset, gor, overlap>>

\* transport.RoundTrip(r), as called by s.HTTPClient().Do(r)
RoundTrip == \E r \in Requests : RoundTripVia(1, HTTPClient(1), r)

Next == Push \/ OnPush \/ Reset \/ SetDefaultRoundTrip \/ RoundTrip

Spec == Init /\ [][Next]_vars

----------------------------------------------------------------------------
(* Requests whose URL has a host or a fragment *)

PathF == <<"f">>

\* requests as http.NewRequest makes them from "http://h/p", "/p#f" and "/p?x=1#f"
URLRequests ==
    { Request(GET, URL(<<"http">>, <<"h">>, PathP, <<>>, <<>>)),
      Request(GET, URL(<<>>, <<>>, PathP, <<>>, PathF)),
      Request(GET, URL(<<>>, <<>>, PathP, <<"x", "=", "1">>, PathF)) }

\* transport.RoundTrip(r) for such a request
RoundTripURL == \E r \in URLRequests : RoundTripVia(1, HTTPClient(1), r)

NextURL == Next \/ RoundTripURL

SpecURL == Init /\ [][NextURL]_vars

----------------------------------------------------------------------------
(* Introspection *)

\* fmt.Sprintf("[%s]%s", rt.method, rt.path)
Sprintf(e) == <<"[">> \o e.method \o <<"]">> \o e.path

\* faulty variant: the list is built back to front
StillExpectedRTsReversed(q) == [i \in 1..Len(q) |-> Sprintf(q[Len(q) + 1 - i])]

\* Server.StillExpectedRTs: one string per entry, appended in queue order
StillExpectedRTs(q) == [i \in 1..Len(q) |-> Sprintf(q[i])]

\* a call of a Server method that assigns nothing and returns v
Returns(name, v) ==
    /\ ~panicked
    /\ op' = name
    /\ on' = 1
    /\ pusher' = NoPusher
    /\ ret' = v
    /\ NoRoundTrip
    /\ UNCHANGED <<queue, queue2, DefaultRoundTrip, builtWithT, invoked, nextId,
                   nPush, nHit, nReset, panicked, gor, overlap>>

\* s.Len()
LenCall == Returns("Len", ServerLen)

\* s.StillExpectedRTs()
StillExpectedRTsCall == Returns("StillExpectedRTs", StillExpectedRTs(queue))

\* s.HTTPClient()
HTTPClientCall == Returns("HTTPClient", HTTPClient(1))

NextIntro == Next \/ LenCall \/ StillExpectedRTsCall \/ HTTPClientCall

SpecIntro == Init /\ [][NextIntro]_vars

----------------------------------------------------------------------------
(* A second Server, made by NewRawServer, next to the first *)

TwoRequests == {Request(GET, URL(<<>>, <<>>, PathP, <<>>, <<>>)),
                Request(POST, URL(<<>>, <<>>, PathP, <<>>, <<>>))}

\* s.Push(f) and s.On(m, p).Push(f) on the first Server
PushOne ==
    \E t \in {Builder(1)} \cup {On(Builder(1), m, p) : m \in OnMethods, p \in OnPaths} :
        PusherPush(1, t, mockedRT, "Push")

\* s.HTTPClient().Do(r) on the first Server
RoundTripOne == \E r \in TwoRequests : RoundTripVia(1, HTTPClient(1), r)

\* s2.Push(f) and s2.On(GET, "/p").Push(f)
Push2 ==
    \E t \in {Builder(2), On(Builder(2), GET, PathP)} : PusherPush(2, t, mockedRT, "Push")

\* s2.Reset()
Reset2 == ResetOf(2)

\* s2.HTTPClient().Do(r)
RoundTrip2 == \E r \in TwoRequests : RoundTripVia(2, HTTPClient(2), r)

NextTwo == PushOne \/ Reset \/ RoundTripOne \/ Push2 \/ Reset2 \/ RoundTrip2

SpecTwo == Init /\ [][NextTwo]_vars

----------------------------------------------------------------------------
(* RoundTrip called by two goroutines with no lock around the Server.

   pop takes no lock, so its reads and its write of q.queue are steps of their
   own that another goroutine's steps can come between.  A goroutine goes
   through pop in three steps: the range loop (q.queue is evaluated once and
   the first matching entry is looked for), the evaluation of q.queue[:i] and
   q.queue[i+1:] (q.queue is read again, and the slice expression panics when
   i+1 is beyond its length), and the assignment of the appended result to
   q.queue, after which RoundTrip calls the trip.  Unsynchronised access is a
   data race; the behaviours below are those in which each of the three steps
   is atomic and slices behave as values. *)

RECURSIVE ScanFrom(_, _, _, _)
\* pop, lines 135-142: the index of the first entry of q that matches, from
\* index i on; 0 when the loop runs to its end
ScanFrom(q, m, p, i) ==
    IF i > Len(q)
    THEN 0
    ELSE IF q[i].method # m /\ q[i].method # ANY
    THEN ScanFrom(q, m, p, i + 1)
    ELSE IF q[i].path # p /\ q[i].path # AnyPath
    THEN ScanFrom(q, m, p, i + 1)
    ELSE i

\* faulty variant: the matched entry stays in the slice
ShortenedKeep(q, i) == q

\* pop, line 144: append(q.queue[:i], q.queue[i+1:]...), i counted from 1
Shortened(q, i) == SubSeq(q, 1, i - 1) \o SubSeq(q, i + 1, Len(q))

AllIdle == \A g \in Goroutines : gor[g] = Idle

\* the end of a RoundTrip whose outcome is out
Return(g, r, out) ==
    /\ req' = r
    /\ method' = out.method
    /\ path' = out.path
    /\ resp' = out.resp
    /\ err' = out.err
    /\ hit' = out.hit
    /\ branch' = out.branch
    /\ fallbackCalls' = out.fallbackCalls
    /\ reports' = out.errorfs
    /\ panicked' = out.panic
    /\ invoked' = IF out.hit = NoEntry THEN invoked
                  ELSE [invoked EXCEPT ![out.hit.id] = @ + 1]
    /\ nHit' = IF out.hit # NoEntry THEN nHit + 1 ELSE nHit
    /\ gor' = [gor EXCEPT ![g] = Idle]
    /\ op' = "RoundTrip"

\* a step inside pop, with RoundTrip still running
Inside(g, locals) ==
    /\ gor' = [gor EXCEPT ![g] = locals]
    /\ op' = "pop"
    /\ NoRoundTrip
    /\ UNCHANGED <<invoked, nHit>>

\* goroutine g calls RoundTrip(r): lines 211-213 and the range loop of pop;
\* with no match, pop returns (nil, false) and RoundTrip goes on to its end
GoScan(g, r) ==
    LET m == r.Method
        p == getPathOnly(r)
        i == ScanFrom(queue, m, p, 1)
    IN  /\ ~panicked
        /\ gor[g] = Idle
        /\ overlap' = (overlap \/ ~AllIdle)
        /\ IF i = 0
           THEN Return(g, r, OnMiss(queue, DefaultRoundTrip, m, p, r))
           ELSE /\ Inside(g, [req |-> r, method |-> m, path |-> p, pc |-> "load",
                              e |-> queue[i], i |-> i, loaded |-> <<>>])
                /\ UNCHANGED panicked
        /\ on' = 1
        /\ pusher' = NoPusher
        /\ ret' = NoValue
        /\ UNCHANGED <<queue, queue2, DefaultRoundTrip, builtWithT, nextId, nPush, nReset>>

\* goroutine g evaluates q.queue[:i] and q.queue[i+1:]
GoLoad(g) ==
    /\ ~panicked
    /\ gor[g] # Idle
    /\ gor[g].pc = "load"
    /\ IF gor[g].i > Len(queue)
       THEN /\ panicked' = TRUE
            /\ Inside(g, Idle)
       ELSE /\ UNCHANGED panicked
            /\ Inside(g, [gor[g] EXCEPT !.pc = "store", !.loaded = queue])
    /\ on' = 1
    /\ pusher' = NoPusher
    /\ ret' = NoValue
    /\ UNCHANGED <<queue, queue2, DefaultRoundTrip, builtWithT, nextId, nPush, nReset,
                   overlap>>

\* goroutine g assigns q.queue, pop returns e.trip, and RoundTrip calls it
GoStore(g) ==
    /\ ~panicked
    /\ gor[g] # Idle
    /\ gor[g].pc = "store"
    /\ queue' = Shortened(gor[g].loaded, gor[g].i)
    /\ Return(g, gor[g].req,
              OnHit([queue |-> queue', trip |-> gor[g].e.trip, ok |-> TRUE,
                     entry |-> gor[g].e],
                    gor[g].method, gor[g].path, gor[g].req))
    /\ on' = 1
    /\ pusher' = NoPusher
    /\ ret' = NoValue
    /\ UNCHANGED <<queue2, DefaultRoundTrip, builtWithT, nextId, nPush, nReset, overlap>>

\* s.Push(f) and s.On(GET, "/p").Push(f), by the test before the goroutines run
GoPush ==
    /\ AllIdle
    /\ \E t \in {Builder(1), On(Builder(1), GET, PathP)} : PusherPush(1, t, mockedRT, "Push")

\* s.Reset(), by the test when no goroutine runs
GoReset == AllIdle /\ ResetOf(1)

GoRoundTrip == \E g \in Goroutines, r \in TwoRequests : GoScan(g, r)

GoPop == \E g \in Goroutines : GoLoad(g) \/ GoStore(g)

NextRace == GoPush \/ GoReset \/ GoRoundTrip \/ GoPop

SpecRace == Init /\ [][NextRace]_vars

----------------------------------------------------------------------------
(* One request dispatched again and again, with pushes in between and no Reset *)

\* the request that is repeated
FifoRequest == Request(GET, URL(<<>>, <<>>, PathP, <<>>, <<>>))

\* s.On(m, p).Push(f), with entries that match FifoRequest and entries that do not
FifoPush ==
    \E m \in {ANY, GET, POST}, p \in OnPaths, f \in Producers :
        PusherPush(1, On(Builder(1), m, p), f, "Push")

\* s.HTTPClient().Do(FifoRequest)
FifoRoundTrip == RoundTripVia(1, HTTPClient(1), FifoRequest)

NextFifo == FifoPush \/ FifoRoundTrip

\* the test keeps sending the request: a RoundTrip that would change anything
\* is not put off for ever
SpecFifo == Init /\ [][NextFifo]_vars /\ WF_vars(FifoRoundTrip)

----------------------------------------------------------------------------
(* Entries pushed with a path that holds a "?" *)

\* the path "/p?x=1" as given to On
PathPQuery == <<"/", "p", "?", "x", "=", "1">>

\* GET "/p", GET "/p?x=1" as a client parses it (Path "/p", RawQuery "x=1"),
\* and GET with the whole of "/p?x=1" in URL.Path
QueryRequests ==
    { Request(GET, URL(<<>>, <<>>, PathP, <<>>, <<>>)),
      Request(GET, URL(<<>>, <<>>, PathP, <<"x", "=", "1">>, <<>>)),
      Request(GET, URL(<<>>, <<>>, PathPQuery, <<>>, <<>>)) }

\* s.On(m, p).Push(f), p with or without a "?"
QueryPush ==
    \E m \in OnMethods, p \in OnPaths \cup {PathPQuery} :
        PusherPush(1, On(Builder(1), m, p), mockedRT, "Push")

\* s.HTTPClient().Do(r)
QueryRoundTrip == \E r \in QueryRequests : RoundTripVia(1, HTTPClient(1), r)

NextQuery == QueryPush \/ QueryRoundTrip \/ Reset

SpecQuery == Init /\ [][NextQuery]_vars

----------------------------------------------------------------------------
(* Pushing a nil RoundTripFunc *)

\* s.Push(nil) and s.On(GET, "/p").Push(nil): Push checks nothing
PushNil ==
    \E t \in {Builder(1), On(Builder(1), GET, PathP)} : PusherPush(1, t, NilFunc, "Push")

NextNil == Next \/ PushNil

SpecNil == Init /\ [][NextNil]_vars

----------------------------------------------------------------------------
(* Properties *)

\* the matching rule as the specification states it
Eligible(e, m, p) ==
    (e.method = ANY \/ e.method = m) /\ (e.path = AnyPath \/ e.path = p)

\* the position of the first "?" of s, or Len(s) + 1
FirstQuery(s) ==
    IF \E i \in 1..Len(s) : s[i] = "?"
    THEN CHOOSE i \in 1..Len(s) : s[i] = "?" /\ \A j \in 1..(i - 1) : s[j] # "?"
    ELSE Len(s) + 1

\* the request's path as the dispatcher normalises it: everything from the
\* first "?" of the request's URL string onward is removed
Normalised(r) == SubSeq(URLString(r.URL), 1, FirstQuery(URLString(r.URL)) - 1)

\* no entry of q is eligible for request r
NoneEligible(q, r) ==
    \A i \in 1..Len(q) : ~Eligible(q[i], r.Method, Normalised(r))

\* C1: a RoundTrip looks up the request's method and normalised path; the
\* entry it consumes is a queued entry (M, X) with (M = ANY or M = method) and
\* (X = AnyPath or X = path); it consumes nothing exactly when no queued entry
\* satisfies that rule, and then the queue is as before.
C1_MatchingRule ==
    [][op' = "RoundTrip" =>
        /\ method' = req'.Method
        /\ path' = Normalised(req')
        /\ hit' # NoEntry =>
            /\ \E i \in 1..Len(queue) : queue[i] = hit'
            /\ Eligible(hit', method', path')
            /\ hit'.method # ANY => hit'.method = req'.Method
            /\ hit'.path # AnyPath => hit'.path = Normalised(req')
        /\ (hit' = NoEntry) <=> NoneEligible(queue, req')
        /\ hit' = NoEntry => queue' = queue
        /\ Len(queue') >= Len(queue) - 1
    ]_vars

\* C1 witness: an entry for (GET, "/p") was consumed by GET "/p?x=1"
C1_Witness ==
    /\ op = "RoundTrip"
    /\ hit # NoEntry
    /\ hit.method = GET
    /\ hit.path = PathP
    /\ req.Method = GET
    /\ req.URL.RawQuery # <<>>

\* C2: of the queued entries a request matches, RoundTrip consumes the one
\* closest to the head; the queue afterwards is the queue before with exactly
\* that entry removed, so every later matching entry stays queued, whether or
\* not it is more specific.
C2_FifoFirstMatch ==
    [][op' = "RoundTrip" /\ ~NoneEligible(queue, req') =>
        \E i \in 1..Len(queue) :
            /\ Eligible(queue[i], req'.Method, Normalised(req'))
            /\ \A j \in 1..(i - 1) : ~Eligible(queue[j], req'.Method, Normalised(req'))
            /\ hit' = queue[i]
            /\ queue' = RemoveAt(queue, i)
    ]_vars

\* C2 witness: the wildcard entry pushed first was consumed and the entry for
\* (GET, "/p") pushed after it, which matches the same request, is still queued
C2_Witness ==
    /\ op = "RoundTrip"
    /\ hit # NoEntry
    /\ hit.method = ANY
    /\ hit.path = AnyPath
    /\ Len(queue) = 1
    /\ queue[1].method = GET
    /\ queue[1].path = PathP
    /\ queue[1].id > hit.id
    /\ Eligible(queue[1], method, path)

\* invoked changes at the consumed entry only, by one
InvokedOnly(e) ==
    invoked' = [invoked EXCEPT ![e.id] = @ + 1]

\* C3: the trip of a pushed entry is called at most once; and when as many
\* RoundTrips have consumed an entry as entries were pushed (since the last
\* Reset), the next RoundTrip consumes nothing, calls no pushed trip and takes
\* the fallback or the error return.
C3_SingleShot ==
    [][/\ \A i \in 1..MaxPushes : invoked'[i] <= 1
       /\ op' = "RoundTrip" /\ nHit = nPush =>
            /\ hit' = NoEntry
            /\ branch' \in {"fallback", "error"}
            /\ invoked' = invoked
            /\ queue' = <<>>
    ]_vars

\* C3 witness: two entries pushed, two RoundTrips consumed them, and a third
\* RoundTrip has fallen through
C3_Witness ==
    /\ op = "RoundTrip"
    /\ nPush = 2
    /\ nHit = 2
    /\ invoked[1] = 1
    /\ invoked[2] = 1
    /\ hit = NoEntry
    /\ branch \in {"fallback", "error"}

\* C4: Len() is the number of pushes since the last Reset minus the number of
\* RoundTrips since then that consumed an entry, and is never negative; a push
\* changes it by +1 and a RoundTrip that consumes an entry by -1.
C4_LenAccounting ==
    /\ [](ServerLen = nPush - nHit /\ ServerLen >= 0)
    /\ [][/\ op' = "Push" => Len(queue') = ServerLen + 1
          /\ op' = "RoundTrip" /\ ~NoneEligible(queue, req') => Len(queue') = ServerLen - 1
          /\ op' = "RoundTrip" /\ NoneEligible(queue, req') => Len(queue') = ServerLen
       ]_vars

\* C4 witness: one push before a Reset, one after it, and that one consumed
C4_Witness ==
    /\ nReset = 1
    /\ nextId = 3
    /\ nPush = 1
    /\ nHit = 1
    /\ ServerLen = 0
    /\ op = "RoundTrip"

\* C5: a RoundTrip whose request no queued entry matches leaves the queue as
\* it was, whichever of the fallback and the error return follows.
C5_MissKeepsQueue ==
    [][op' = "RoundTrip" /\ NoneEligible(queue, req') =>
        /\ queue' = queue
        /\ invoked' = invoked
    ]_vars

\* C5 witness: a request missed a non-empty queue and the fallback ran
C5_Witness ==
    /\ op = "RoundTrip"
    /\ hit = NoEntry
    /\ branch = "fallback"
    /\ Len(queue) = 2
    /\ NoneEligible(queue, req)

\* C6: a RoundTrip that consumes an entry returns what that entry's trip
\* returns: (response with the given code and body, nil) for a response
\* function, (nil, the given error) for a failure function.  The entry is
\* consumed either way, only its trip is called, and no fallback runs.
C6_HitReturnsVerbatim ==
    [][op' = "RoundTrip" /\ hit' # NoEntry =>
        /\ hit'.trip.kind = "StringResponseFunc" =>
            /\ resp' = Response(hit'.trip.code, hit'.trip.msg)
            /\ err' = NilError
        /\ hit'.trip.kind = "FailureFunc" =>
            /\ resp' = NilResponse
            /\ err' = hit'.trip.err
        /\ Len(queue') = Len(queue) - 1
        /\ InvokedOnly(hit')
        /\ fallbackCalls' = 0
        /\ reports' = 0
    ]_vars

\* C6 witness: a failure function was consumed, its error came back, and a
\* second entry and a fallback were available and not tried
C6_Witness ==
    /\ op = "RoundTrip"
    /\ hit # NoEntry
    /\ hit.trip = FailureFunc(ExpectedErr)
    /\ err = ExpectedErr
    /\ resp = NilResponse
    /\ Len(queue) = 1
    /\ Eligible(queue[1], method, path)
    /\ DefaultRoundTrip = mockedRT

\* the text of the unmatched-request error for request r
UnmatchedText(r) ==
    <<"httpt.Server request not mocked for this request ">>
        \o r.Method \o <<":">> \o Normalised(r)

\* C7: on a harness made by NewRawServer with DefaultRoundTrip nil, a
\* RoundTrip that matches no entry returns a nil response and an error whose
\* message names the request's method and normalised path.
C7_UnconfiguredError ==
    [][op' = "RoundTrip" /\ ~builtWithT /\ DefaultRoundTrip = NilFunc
            /\ NoneEligible(queue, req') =>
        /\ resp' = NilResponse
        /\ err'.kind = "error"
        /\ err'.msg = UnmatchedText(req')
        /\ branch' = "error"
        /\ fallbackCalls' = 0
    ]_vars

\* C7 witness: GET "/p?x=1" on an empty raw harness returned the error
C7_Witness ==
    /\ op = "RoundTrip"
    /\ ~builtWithT
    /\ DefaultRoundTrip = NilFunc
    /\ branch = "error"
    /\ req.URL.RawQuery # <<>>
    /\ resp = NilResponse
    /\ err.kind = "error"

\* C8 as stated: on a harness built with a reporter every RoundTrip that
\* matches no entry reports once and returns the internal-server-error
\* response with a nil error; a RoundTrip that consumes an entry reports
\* nothing.
C8_StrictFailAsStated ==
    [][op' = "RoundTrip" =>
        /\ builtWithT /\ NoneEligible(queue, req') =>
            /\ reports' = 1
            /\ resp'.kind = "response"
            /\ resp'.StatusCode = StatusInternalServerError
            /\ err' = NilError
        /\ builtWithT /\ ~NoneEligible(queue, req') => reports' = 0
    ]_vars

\* C8 amended: the same, for a harness built with a reporter whose
\* DefaultRoundTrip is still the function NewServer installed.
C8_StrictFail ==
    [][op' = "RoundTrip" =>
        /\ builtWithT /\ DefaultRoundTrip = NotMockedFunc /\ NoneEligible(queue, req') =>
            /\ reports' = 1
            /\ fallbackCalls' = 1
            /\ resp'.kind = "response"
            /\ resp'.StatusCode = StatusInternalServerError
            /\ err' = NilError
        /\ builtWithT /\ ~NoneEligible(queue, req') =>
            /\ reports' = 0
            /\ fallbackCalls' = 0
    ]_vars

\* C8 witness: a request missed a non-empty queue on a harness made by
\* NewServer, was reported once and got the 500 response
C8_Witness ==
    /\ op = "RoundTrip"
    /\ builtWithT
    /\ DefaultRoundTrip = NotMockedFunc
    /\ hit = NoEntry
    /\ Len(queue) >= 1
    /\ reports = 1
    /\ resp.kind = "response"
    /\ resp.StatusCode = StatusInternalServerError
    /\ err = NilError

\* C9: with a caller-supplied DefaultRoundTrip, a RoundTrip that matches no
\* entry calls it once and returns what it returns, a deliberate error
\* included; DefaultRoundTrip stays in place for later requests.
C9_CustomFallback ==
    [][op' = "RoundTrip" /\ NoneEligible(queue, req')
            /\ DefaultRoundTrip.kind \in {"StringResponseFunc", "FailureFunc"} =>
        /\ fallbackCalls' = 1
        /\ branch' = "fallback"
        /\ DefaultRoundTrip.kind = "StringResponseFunc" =>
            /\ resp' = Response(DefaultRoundTrip.code, DefaultRoundTrip.msg)
            /\ err' = NilError
        /\ DefaultRoundTrip.kind = "FailureFunc" =>
            /\ resp' = NilResponse
            /\ err' = DefaultRoundTrip.err
        /\ reports' = 0
        /\ DefaultRoundTrip' = DefaultRoundTrip
    ]_vars

\* C9 witness: the failure fallback served a request that missed a non-empty
\* queue, and its error came back
C9_Witness ==
    /\ op = "RoundTrip"
    /\ DefaultRoundTrip = FailureFunc(ExpectedErr)
    /\ branch = "fallback"
    /\ fallbackCalls = 1
    /\ Len(queue) >= 1
    /\ resp = NilResponse
    /\ err = ExpectedErr

\* C10: Reset leaves an empty queue, as after construction; until the next
\* push every RoundTrip takes the fallback or the error return; and a
\* RoundTrip after a Reset consumes the first eligible of the entries pushed
\* since that Reset, never an entry pushed before it.
C10_Reset ==
    [][/\ op' = "Reset" => queue' = <<>> /\ Len(queue') = 0
       /\ op' = "RoundTrip" /\ nReset = 1 /\ nPush = 0 =>
            /\ hit' = NoEntry
            /\ branch' \in {"fallback", "error"}
            /\ queue' = <<>>
       /\ op' = "RoundTrip" /\ nReset = 1 /\ hit' # NoEntry =>
            /\ hit'.id >= nextId - nPush
            /\ \E i \in 1..Len(queue) :
                /\ queue[i] = hit'
                /\ \A j \in 1..(i - 1) :
                      ~Eligible(queue[j], req'.Method, Normalised(req'))
                /\ queue' = RemoveAt(queue, i)
       /\ nReset' = 1 => \A i \in 1..Len(queue') : queue'[i].id >= nextId' - nPush'
    ]_vars

\* C10 witness: an entry was pushed, Reset dropped it uncalled, and the entry
\* pushed after the Reset has been consumed
C10_Witness ==
    /\ op = "RoundTrip"
    /\ nReset = 1
    /\ hit # NoEntry
    /\ hit.id = 2
    /\ invoked[1] = 0
    /\ nPush = 1
    /\ queue = <<>>

\* C11: s.Push(f) and s.On(ANY, AnyPath).Push(f) are calls on equal pushers;
\* from any state either leaves the queue with one entry (ANY, AnyPath, f)
\* appended at the tail, and such an entry at the head is consumed by a
\* request of any method and any path.
C11_PushIsOnAnyAny ==
    /\ [](On(Builder(1), ANY, AnyPath) = Builder(1))
    /\ [][/\ op' = "Push" /\ pusher' \in {Builder(1), On(Builder(1), ANY, AnyPath)} =>
              /\ Len(queue') = Len(queue) + 1
              /\ SubSeq(queue', 1, Len(queue)) = queue
              /\ queue'[Len(queue')].method = ANY
              /\ queue'[Len(queue')].path = AnyPath
              /\ queue'[Len(queue')].trip \in Producers
              /\ \A r \in Requests :
                    Eligible(queue'[Len(queue')], r.Method, Normalised(r))
          /\ op' = "RoundTrip" /\ queue # <<>> /\ queue[1].method = ANY
                /\ queue[1].path = AnyPath =>
              /\ hit' = queue[1]
              /\ queue' = Tail(queue)
       ]_vars

\* C11 witness: a push on the Server's own pusher has appended a wildcard
\* entry behind an entry for GET
C11_Witness ==
    /\ op = "Push"
    /\ pusher = Builder(1)
    /\ Len(queue) = 2
    /\ queue[1].method = GET
    /\ queue[2].method = ANY
    /\ queue[2].path = AnyPath

\* the request r with its query string removed
WithoutQuery(r) == [r EXCEPT !.URL.RawQuery = <<>>]

\* C12: the path used for matching is the request's URL cut at the first "?",
\* and a request is resolved as the request that differs from it only in
\* having no query string: the same entry consumed, or both missed.
C12_QueryInsensitive ==
    [][op' = "RoundTrip" =>
        /\ path' = Normalised(req')
        /\ hit' = RoundTripOf(queue, DefaultRoundTrip, WithoutQuery(req')).hit
        /\ queue' = RoundTripOf(queue, DefaultRoundTrip, WithoutQuery(req')).queue
    ]_vars

\* C13: an entry is compared with the path component of the request's URL
\* only: when a queued entry is eligible for the request's method and
\* URL.Path, RoundTrip consumes the first such entry.
C13_PathComponentOnly ==
    [][op' = "RoundTrip"
            /\ (\E i \in 1..Len(queue) : Eligible(queue[i], req'.Method, req'.URL.Path)) =>
        \E i \in 1..Len(queue) :
            /\ Eligible(queue[i], req'.Method, req'.URL.Path)
            /\ \A j \in 1..(i - 1) : ~Eligible(queue[j], req'.Method, req'.URL.Path)
            /\ hit' = queue[i]
    ]_vars

\* C14: whatever has been pushed, a RoundTrip returns a (response, error)
\* pair to its caller: the goroutine never panics.
C14_NeverAborts == ~panicked

\* the ids of the entries pushed since the last Reset and not yet consumed
Pending == {id \in (nextId - nPush)..(nextId - 1) : invoked[id] = 0}

TripCalls ==
    LET RECURSIVE Sum(_)
        Sum(n) == IF n = 0 THEN 0 ELSE (invoked'[n] - invoked[n]) + Sum(n - 1)
    IN  Sum(MaxPushes)

\* C16: every RoundTrip does exactly one of three things: it calls the trip of
\* the one entry it consumes, or it calls DefaultRoundTrip, or it returns the
\* unmatched-request error itself.  DefaultRoundTrip is not called when a
\* queued entry matches, and no pushed trip is called when none matches.
C16_HitMissExclusive ==
    [][op' = "RoundTrip" =>
        LET a == /\ TripCalls = 1
                 /\ hit' # NoEntry
                 /\ \E i \in 1..Len(queue) : queue[i] = hit'
                 /\ invoked'[hit'.id] = invoked[hit'.id] + 1
            b == fallbackCalls' = 1
            c == /\ resp' = NilResponse
                 /\ err' = Error(UnmatchedText(req'))
                 /\ DefaultRoundTrip = NilFunc
        IN  /\ (a /\ ~b /\ ~c) \/ (~a /\ b /\ ~c) \/ (~a /\ ~b /\ c)
            /\ TripCalls \in {0, 1}
            /\ fallbackCalls' \in {0, 1}
            /\ ~NoneEligible(queue, req') => a
            /\ NoneEligible(queue, req') => TripCalls = 0 /\ hit' = NoEntry
    ]_vars

\* C16 witness: a queued entry served the request while the reporting
\* fallback of NewServer was in place, and the fallback stayed silent
C16_Witness ==
    /\ op = "RoundTrip"
    /\ hit # NoEntry
    /\ invoked[hit.id] = 1
    /\ DefaultRoundTrip = NotMockedFunc
    /\ builtWithT
    /\ fallbackCalls = 0
    /\ reports = 0

\* C17: StillExpectedRTs() returns, for each queued entry and in queue order,
\* the text "[" method "]" path, so it has Len() elements; Len() returns the
\* number of queued entries; and StillExpectedRTs(), Len() and HTTPClient()
\* leave the queue as it was.
C17_Introspection ==
    [][/\ op' = "StillExpectedRTs" =>
            /\ Len(ret') = ServerLen
            /\ \A i \in 1..Len(queue) :
                 ret'[i] = <<"[">> \o queue[i].method \o <<"]">> \o queue[i].path
       /\ op' = "Len" => ret' = Len(queue)
       /\ op' \in {"StillExpectedRTs", "Len", "HTTPClient"} =>
            /\ queue' = queue
            /\ Len(queue') = ServerLen
    ]_vars

\* C17 witness: StillExpectedRTs() has listed two queued entries of different
\* text, the first entry first
C17_Witness ==
    /\ op = "StillExpectedRTs"
    /\ Len(queue) = 2
    /\ Len(ret) = 2
    /\ ret[1] # ret[2]
    /\ ret[1] = <<"[">> \o queue[1].method \o <<"]">> \o queue[1].path

\* the queue of Server s, and of the Server that is not s
QueueOf(s) == IF s = 1 THEN queue ELSE queue2
OtherQueue(s) == IF s = 1 THEN queue2 ELSE queue

\* C19: a push through any pusher obtained from a Server, its own or one made
\* by On, appends to that Server's queue in call order; a RoundTrip through a
\* client obtained from the Server consumes from that queue whenever an entry
\* there matches; Reset empties that queue.  None of the three changes the
\* queue of the other Server.
C19_QueueOwnership ==
    [][\A s \in {1, 2} : on' = s /\ op' \in {"Push", "RoundTrip", "Reset"} =>
        /\ OtherQueue(s)' = OtherQueue(s)
        /\ Len(OtherQueue(s)') = Len(OtherQueue(s))
        /\ op' = "Push" =>
            /\ pusher'.engine = s
            /\ \E f \in Producers :
                 QueueOf(s)' = Append(QueueOf(s),
                                      tripEntry(pusher'.method, pusher'.path, f, nextId))
        /\ op' = "RoundTrip" =>
            IF NoneEligible(QueueOf(s), req')
            THEN hit' = NoEntry /\ QueueOf(s)' = QueueOf(s)
            ELSE \E i \in 1..Len(QueueOf(s)) :
                    /\ hit' = QueueOf(s)[i]
                    /\ QueueOf(s)' = RemoveAt(QueueOf(s), i)
        /\ op' = "Reset" => QueueOf(s)' = <<>>
    ]_vars

\* C19 witness: each Server held one entry matching the request; the client
\* of the first Server consumed the first Server's entry and the entry of the
\* second Server is still queued
C19_Witness ==
    /\ op = "RoundTrip"
    /\ on = 1
    /\ hit # NoEntry
    /\ queue = <<>>
    /\ Len(queue2) = 1
    /\ Eligible(queue2[1], method, path)
    /\ queue2[1].id # hit.id

\* C20: pop reads q.queue and assigns it in separate steps, and nothing keeps
\* a second RoundTrip from running between them.  As long as no RoundTrip has
\* begun while another was inside pop, every pushed trip has been called at
\* most once, the queue holds the pushes not consumed, and nothing has
\* panicked; the read steps leave the queue as it is, and the assignment
\* writes what was read earlier with the matched entry removed.
C20_NoLocking ==
    /\ [](~overlap =>
            /\ \A id \in 1..MaxPushes : invoked[id] <= 1
            /\ ServerLen = nPush - nHit
            /\ {queue[i].id : i \in 1..Len(queue)} = Pending
            /\ ~panicked)
    /\ [][/\ op' = "pop" => queue' = queue
          /\ \A g \in Goroutines :
                gor[g] # Idle /\ gor[g].pc = "store" /\ gor'[g] = Idle =>
                    /\ Len(queue') = Len(gor[g].loaded) - 1
                    /\ hit' = gor[g].e
       ]_vars

\* C20 witness: two RoundTrips ran inside pop at the same time, both were
\* served by the entry pushed first, and of the two queued entries one is
\* left: Len() went down by one where two requests were served
C20_Witness ==
    /\ overlap
    /\ op = "RoundTrip"
    /\ nPush = 2
    /\ invoked[1] = 2
    /\ invoked[2] = 0
    /\ nHit = 2
    /\ ServerLen = 1
    /\ queue[1].id = 2
    /\ ~panicked

\* the number of entries of q before position i that are eligible for r
Ahead(q, i, r) ==
    Cardinality({j \in 1..(i - 1) : Eligible(q[j], r.Method, Normalised(r))})

\* the position in q of the entry pushed as id, 0 when it is not queued
PositionOf(q, id) ==
    IF \E i \in 1..Len(q) : q[i].id = id
    THEN CHOOSE i \in 1..Len(q) : q[i].id = id
    ELSE 0

\* C21: with one request r dispatched repeatedly and no Reset, a queued entry
\* that matches r with k matching entries ahead of it is consumed by the
\* (k+1)-th dispatch: a dispatch consumes it when k = 0 and otherwise leaves it
\* queued, its trip not called, with k - 1 matching entries ahead; a push
\* leaves every queued entry where it is; an entry leaves the queue only by
\* being consumed.  So eventually no queued entry matches r any more, every
\* one that did has been consumed, and r takes the fallback or error return.
C21_NoStarvation ==
    /\ [][/\ op' = "RoundTrip" =>
              \A i \in 1..Len(queue) :
                  Eligible(queue[i], req'.Method, Normalised(req')) =>
                      IF Ahead(queue, i, req') = 0
                      THEN /\ hit' = queue[i]
                           /\ PositionOf(queue', queue[i].id) = 0
                           /\ invoked'[queue[i].id] = 1
                      ELSE /\ PositionOf(queue', queue[i].id) # 0
                           /\ queue'[PositionOf(queue', queue[i].id)] = queue[i]
                           /\ Ahead(queue', PositionOf(queue', queue[i].id), req')
                                = Ahead(queue, i, req') - 1
                           /\ invoked'[queue[i].id] = 0
          /\ op' = "Push" =>
              \A i \in 1..Len(queue) :
                  /\ queue'[i] = queue[i]
                  /\ Ahead(queue', i, FifoRequest) = Ahead(queue, i, FifoRequest)
          /\ op' = "RoundTrip" /\ NoneEligible(queue, req') =>
              /\ branch' \in {"fallback", "error"}
              /\ queue' = queue
          /\ \A i \in 1..Len(queue) :
                PositionOf(queue', queue[i].id) = 0 =>
                    /\ op' = "RoundTrip"
                    /\ hit' = queue[i]
                    /\ invoked'[queue[i].id] = 1
       ]_vars
    /\ <>[]NoneEligible(queue, FifoRequest)

\* C21 witness: of two queued entries matching the request, the one pushed
\* second, a wildcard behind an exact entry, was consumed by the second dispatch
C21_Witness ==
    /\ op = "RoundTrip"
    /\ req = FifoRequest
    /\ nPush = 2
    /\ nHit = 2
    /\ hit # NoEntry
    /\ hit.id = 2
    /\ hit.method = ANY
    /\ invoked[1] = 1
    /\ invoked[2] = 1
    /\ queue = <<>>

\* the entry was pushed with a path of its own that holds a "?"
QueryPath(e) == e.path # AnyPath /\ \E i \in 1..Len(e.path) : e.path[i] = "?"

\* C22: an entry pushed with a path, other than AnyPath, that holds a "?" is
\* consumed by no RoundTrip, as the path a request is compared by holds none:
\* the entry stays queued, its trip not called, and counts in Len(), through
\* every push and RoundTrip, and leaves the queue only by Reset.
C22_UnreachableEntry ==
    [][/\ \A i \in 1..Len(path') : path'[i] # "?"
       /\ hit' # NoEntry => ~QueryPath(hit')
       /\ \A i \in 1..Len(queue) :
            QueryPath(queue[i]) =>
                /\ invoked'[queue[i].id] = 0
                /\ IF op' = "Reset"
                   THEN queue' = <<>>
                   ELSE /\ PositionOf(queue', queue[i].id) # 0
                        /\ queue'[PositionOf(queue', queue[i].id)] = queue[i]
                        /\ Len(queue') >= 1
    ]_vars

\* C22 witness: the entry pushed for (GET, "/p?x=1") is at the head of the
\* queue, the request GET "/p?x=1" was dispatched, and it passed that entry by
\* and consumed the wildcard entry behind it
C22_Witness ==
    /\ op = "RoundTrip"
    /\ req.URL.RawQuery = <<"x", "=", "1">>
    /\ req.URL.Path = PathP
    /\ Len(queue) = 1
    /\ queue[1].method = GET
    /\ queue[1].path = PathPQuery
    /\ queue[1].id = 1
    /\ invoked[1] = 0
    /\ hit # NoEntry
    /\ hit.id = 2
    /\ ServerLen = 1

====
